---------------------------- MODULE Spec2Model ----------------------------
(* Doctor appointment booking API (src/index.js): an Express application   *)
(* holding an in-memory appointment list and a fixed catalog of doctors.   *)
(* Every route handler is synchronous, so one request is one atomic step.  *)
EXTENDS Integers, Sequences, FiniteSets, TLC

VARIABLES
    appointments,  \* the in-memory array `appointments` (index.js:8)
    req,           \* the request handled last: [op, body]
    res,           \* the response sent for it: [status, body]
    n,             \* number of requests handled so far
    bookedAt,      \* history: for each list position, the request number that booked it
    inflight,      \* book requests received and not yet handled (client -> body)
    answered       \* responses to those requests (client -> response)

vars == <<appointments, req, res, n, bookedAt, inflight, answered>>

(* Length of the request sequences explored. *)
MaxRequests == 4
(* Number of clients with a book request in flight at once. *)
MaxClients == 2

-----------------------------------------------------------------------------
(* JSON values of request bodies.  A value carries its JavaScript type, so *)
(* that === is equality of these records.                                  *)

Str(s) == [type |-> "string", val |-> s]
Num(d) == [type |-> "number", val |-> d]
Undefined == [type |-> "undefined", val |-> ""]

(* JavaScript truthiness, as used by the `!field` tests. *)
Truthy(v) ==
    CASE v.type = "undefined" -> FALSE
      [] v.type = "string" -> v.val # ""
      [] v.type = "number" -> v.val # "0"

(* The UTF-16 code units of the e-mail strings the model sends, as the     *)
(* regular expression scans them (97 is "a", 64 is "@", 46 is ".", 45 is   *)
(* "-", 32 is the space, 12 is the form feed).                             *)
Chars(s) ==
    CASE s = "john@example.com" ->
           <<106, 111, 104, 110, 64, 101, 120, 97, 109, 112, 108, 101, 46, 99, 111, 109>>
      [] s = "jane@example.com" ->
           <<106, 97, 110, 101, 64, 101, 120, 97, 109, 112, 108, 101, 46, 99, 111, 109>>
      [] s = "invalid-email" ->
           <<105, 110, 118, 97, 108, 105, 100, 45, 101, 109, 97, 105, 108>>
      [] s = "john@example" ->
           <<106, 111, 104, 110, 64, 101, 120, 97, 109, 112, 108, 101>>
      [] s = "jo hn@example.com" ->
           <<106, 111, 32, 104, 110, 64, 101, 120, 97, 109, 112, 108, 101, 46, 99, 111, 109>>
      [] s = "@example.com" ->
           <<64, 101, 120, 97, 109, 112, 108, 101, 46, 99, 111, 109>>
      [] s = "john\f@example.com" ->
           <<106, 111, 104, 110, 12, 64, 101, 120, 97, 109, 112, 108, 101, 46, 99, 111, 109>>
      [] s = "" -> <<>>

(* The code units \s matches in JavaScript: \t \n \v \f \r, the space,    *)
(* U+00A0, U+1680, U+2000 to U+200A, U+2028, U+2029, U+202F, U+205F,       *)
(* U+3000 and U+FEFF.                                                      *)
WhiteSpace ==
    {9, 10, 11, 12, 13, 32, 160, 5760} \cup (8192..8202)
        \cup {8232, 8233, 8239, 8287, 12288, 65279}

(* The character class [^\s@] ("@" is 64). *)
NotSpaceOrAt(c) == c \notin WhiteSpace /\ c # 64

(* /^[^\s@]+@[^\s@]+\.[^\s@]+$/ on a sequence of code units: an "@" at i   *)
(* with a non-empty run before it, a "." at j with a non-empty run between *)
(* and after, and no whitespace or other "@" anywhere.                     *)
EmailPattern(cs) ==
    \E i \in 1..Len(cs) : \E j \in 1..Len(cs) :
        /\ 1 < i /\ i + 1 < j /\ j < Len(cs)
        /\ cs[i] = 64
        /\ cs[j] = 46
        /\ \A k \in (1..Len(cs)) \ {i} : NotSpaceOrAt(cs[k])

(* isValidEmail: email.match(...) is a match array or null; a value that   *)
(* is not a string has no match method and the call throws a TypeError.    *)
isValidEmail(email) ==
    IF email.type # "string" THEN "TypeError"
    ELSE IF EmailPattern(Chars(email.val)) THEN "match"
    ELSE "null"

-----------------------------------------------------------------------------
(* Mutant: a catalog in which both doctors offer the 9:00 AM slot. *)
doctorsSharedSlot ==
    << [name |-> "Dr. Smith",
        slots |-> <<"9:00 AM - 10:00 AM", "10:00 AM - 11:00 AM", "2:00 PM - 3:00 PM">>],
       [name |-> "Dr. Johnson",
        slots |-> <<"9:00 AM - 10:00 AM", "1:00 PM - 2:00 PM", "3:00 PM - 4:00 PM">>] >>

(* The doctor catalog. *)
doctors ==
    << [name |-> "Dr. Smith",
        slots |-> <<"9:00 AM - 10:00 AM", "10:00 AM - 11:00 AM", "2:00 PM - 3:00 PM">>],
       [name |-> "Dr. Johnson",
        slots |-> <<"11:00 AM - 12:00 PM", "1:00 PM - 2:00 PM", "3:00 PM - 4:00 PM">>] >>

(* Mutant: the slot is looked up in the whole catalog, not in the doctor's *)
(* own list.                                                               *)
SlotsIncludeAnyDoctor(doctor, timeSlot) ==
    \E d \in DOMAIN doctors :
        \E i \in DOMAIN doctors[d].slots : Str(doctors[d].slots[i]) = timeSlot

(* doctors.find(d => d.name === doctorName): index into the catalog, 0 if none. *)
FindDoctor(doctorName) ==
    IF \E i \in DOMAIN doctors : Str(doctors[i].name) = doctorName
    THEN CHOOSE i \in DOMAIN doctors :
            /\ Str(doctors[i].name) = doctorName
            /\ \A k \in 1..(i - 1) : Str(doctors[k].name) # doctorName
    ELSE 0

(* doctor.slots.includes(timeSlot) *)
SlotsInclude(doctor, timeSlot) ==
    \E i \in DOMAIN doctor.slots : Str(doctor.slots[i]) = timeSlot

-----------------------------------------------------------------------------
(* Responses. *)
ErrorReply(status, msg) ==
    [status |-> status, body |-> [kind |-> "error", text |-> msg, data |-> <<>>]]
ObjectReply(status, apt) ==
    [status |-> status, body |-> [kind |-> "object", text |-> "", data |-> <<apt>>]]
ArrayReply(list) ==
    [status |-> 200, body |-> [kind |-> "array", text |-> "", data |-> list]]
MessageReply(msg) ==
    [status |-> 200, body |-> [kind |-> "message", text |-> msg, data |-> <<>>]]
(* An exception thrown by a handler: Express answers 500. *)
Uncaught(name) ==
    [status |-> 500, body |-> [kind |-> "exception", text |-> name, data |-> <<>>]]

Outcome(r, apps) == [res |-> r, appointments |-> apps]

-----------------------------------------------------------------------------
(* Array helpers. *)

(* Mutant: slice(i, 1), which leaves the array as it is. *)
RemoveNothing(apps, i) == apps

(* Mutant: pop() instead of splice(i, 1). *)
RemoveLast(apps, i) == SubSeq(apps, 1, Len(apps) - 1)

(* appointments.splice(i, 1) *)
RemoveAt(apps, i) ==
    [k \in 1..(Len(apps) - 1) |-> IF k < i THEN apps[k] ELSE apps[k + 1]]

(* Mutant: only the first appointment of the list is looked at. *)
SlotHolderFirstOnly(apps, doctorName, timeSlot) ==
    IF /\ apps # <<>>
       /\ apps[1].doctorName = doctorName
       /\ apps[1].timeSlot = timeSlot
    THEN 1 ELSE 0

(* The first index of apps whose appointment is for (doctorName, timeSlot), *)
(* 0 if none: the scan of the slot-booked checks.                          *)
SlotHolder(apps, doctorName, timeSlot) ==
    LET Holds(i) == apps[i].doctorName = doctorName /\ apps[i].timeSlot = timeSlot
    IN  IF \E i \in DOMAIN apps : Holds(i)
        THEN CHOOSE i \in DOMAIN apps : Holds(i) /\ \A k \in 1..(i - 1) : ~Holds(k)
        ELSE 0

(* Mutant: book's check sees only the requesting patient's appointments. *)
SlotBookedBySamePatient(apps, body) ==
    \E i \in DOMAIN apps :
        /\ apps[i].doctorName = body.doctorName
        /\ apps[i].timeSlot = body.timeSlot
        /\ apps[i].patient.email = body.email

(* book: existingAppointment is defined. *)
SlotBooked(apps, body) == SlotHolder(apps, body.doctorName, body.timeSlot) # 0

(* Mutant: modify's check sees only the patient's own appointments. *)
SlotTakenBySamePatient(apps, a, newTimeSlot) ==
    \E i \in DOMAIN apps :
        /\ apps[i].doctorName = apps[a].doctorName
        /\ apps[i].timeSlot = newTimeSlot
        /\ apps[i].patient.email = apps[a].patient.email

(* Mutant: modify's check leaves out the appointment being modified. *)
SlotTakenExcludingSelf(apps, a, newTimeSlot) ==
    \E i \in DOMAIN apps :
        /\ i # a
        /\ apps[i].doctorName = apps[a].doctorName
        /\ apps[i].timeSlot = newTimeSlot

(* modify: slotTaken, some appointment of the doctor of apps[a] holds      *)
(* newTimeSlot.                                                            *)
SlotTaken(apps, a, newTimeSlot) ==
    SlotHolder(apps, apps[a].doctorName, newTimeSlot) # 0

(* Mutant: cancel matches on the e-mail alone. *)
CancelIndexEmailOnly(apps, email, timeSlot) ==
    LET Hit(i) == apps[i].patient.email = email
    IN  IF \E i \in DOMAIN apps : Hit(i)
        THEN CHOOSE i \in DOMAIN apps : Hit(i) /\ \A k \in 1..(i - 1) : ~Hit(k)
        ELSE 0

(* appointments.findIndex(apt => apt.patient.email === email &&            *)
(*                               apt.timeSlot === timeSlot), 0 for -1.     *)
CancelIndex(apps, email, timeSlot) ==
    LET Hit(i) == apps[i].patient.email = email /\ apps[i].timeSlot = timeSlot
    IN  IF \E i \in DOMAIN apps : Hit(i)
        THEN CHOOSE i \in DOMAIN apps : Hit(i) /\ \A k \in 1..(i - 1) : ~Hit(k)
        ELSE 0

(* Mutant: the lookup is by e-mail alone, as when timeSlot is omitted. *)
findAppointmentEmailOnly(apps, email, timeSlot) ==
    LET Hit(i) == apps[i].patient.email = email
    IN  IF \E i \in DOMAIN apps : Hit(i)
        THEN CHOOSE i \in DOMAIN apps : Hit(i) /\ \A k \in 1..(i - 1) : ~Hit(k)
        ELSE 0

(* findAppointment(email, timeSlot): the index of the first appointment of *)
(* that e-mail whose slot is timeSlot (any slot when timeSlot is falsy),   *)
(* 0 for undefined.                                                        *)
findAppointment(apps, email, timeSlot) ==
    LET Hit(i) == /\ apps[i].patient.email = email
                  /\ (~Truthy(timeSlot) \/ apps[i].timeSlot = timeSlot)
    IN  IF \E i \in DOMAIN apps : Hit(i)
        THEN CHOOSE i \in DOMAIN apps : Hit(i) /\ \A k \in 1..(i - 1) : ~Hit(k)
        ELSE 0

-----------------------------------------------------------------------------
(* 1. POST /api/appointments *)

(* Mutant: the id is the list length, not the length plus one. *)
NewAppointmentIdIsLength(apps, body) ==
    [patient |-> [firstName |-> body.firstName,
                  lastName |-> body.lastName,
                  email |-> body.email],
     timeSlot |-> body.timeSlot,
     doctorName |-> body.doctorName,
     id |-> Len(apps)]

(* The appointment object built from the request body. *)
NewAppointment(apps, body) ==
    [patient |-> [firstName |-> body.firstName,
                  lastName |-> body.lastName,
                  email |-> body.email],
     timeSlot |-> body.timeSlot,
     doctorName |-> body.doctorName,
     id |-> Len(apps) + 1]

BookAppointment(apps, body) ==
    LET d == FindDoctor(body.doctorName)
        valid == isValidEmail(body.email)
    IN  IF \/ ~Truthy(body.firstName) \/ ~Truthy(body.lastName)
           \/ ~Truthy(body.email) \/ ~Truthy(body.timeSlot)
           \/ ~Truthy(body.doctorName)
        THEN Outcome(ErrorReply(400, "All fields are required"), apps)
        ELSE IF valid = "TypeError"
        THEN Outcome(Uncaught("TypeError"), apps)
        ELSE IF valid = "null"
        THEN Outcome(ErrorReply(400, "Invalid email format"), apps)
        ELSE IF d = 0
        THEN Outcome(ErrorReply(404, "Doctor not found"), apps)
        ELSE IF ~SlotsInclude(doctors[d], body.timeSlot)
        THEN Outcome(ErrorReply(400, "Invalid or unavailable time slot"), apps)
        ELSE IF SlotBooked(apps, body)
        THEN Outcome(ErrorReply(400, "Time slot already booked"), apps)
        ELSE Outcome(ObjectReply(201, NewAppointment(apps, body)),
                     Append(apps, NewAppointment(apps, body)))

(* Mutant: an empty result is answered 200 with an empty array. *)
PatientAppointmentsNo404(apps, params) ==
    LET OfPatient(apt) == apt.patient.email = params.email
    IN  IF isValidEmail(params.email) # "match"
        THEN Outcome(ErrorReply(400, "Invalid email format"), apps)
        ELSE Outcome(ArrayReply(SelectSeq(apps, OfPatient)), apps)

(* 2. GET /api/appointments/patient/:email *)
PatientAppointments(apps, params) ==
    LET OfPatient(apt) == apt.patient.email = params.email
        patientAppointments == SelectSeq(apps, OfPatient)
    IN  IF isValidEmail(params.email) = "TypeError"
        THEN Outcome(Uncaught("TypeError"), apps)
        ELSE IF isValidEmail(params.email) = "null"
        THEN Outcome(ErrorReply(400, "Invalid email format"), apps)
        ELSE IF Len(patientAppointments) = 0
        THEN Outcome(ErrorReply(404, "No appointments found"), apps)
        ELSE Outcome(ArrayReply(patientAppointments), apps)

(* Mutant: a doctor without appointments is answered 404. *)
DoctorAppointments404OnEmpty(apps, params) ==
    LET OfDoctor(apt) == apt.doctorName = params.doctorName
    IN  IF FindDoctor(params.doctorName) = 0 \/ SelectSeq(apps, OfDoctor) = <<>>
        THEN Outcome(ErrorReply(404, "Doctor not found"), apps)
        ELSE Outcome(ArrayReply(SelectSeq(apps, OfDoctor)), apps)

(* 3. GET /api/appointments/doctor/:doctorName *)
DoctorAppointments(apps, params) ==
    LET OfDoctor(apt) == apt.doctorName = params.doctorName
    IN  IF FindDoctor(params.doctorName) = 0
        THEN Outcome(ErrorReply(404, "Doctor not found"), apps)
        ELSE Outcome(ArrayReply(SelectSeq(apps, OfDoctor)), apps)

(* 4. DELETE /api/appointments *)
CancelAppointment(apps, body) ==
    LET appointmentIndex == CancelIndex(apps, body.email, body.timeSlot)
    IN  IF ~Truthy(body.email) \/ ~Truthy(body.timeSlot)
        THEN Outcome(ErrorReply(400, "Email and time slot are required"), apps)
        ELSE IF appointmentIndex = 0
        THEN Outcome(ErrorReply(404, "Appointment not found"), apps)
        ELSE Outcome(MessageReply("Appointment cancelled successfully"),
                     RemoveAt(apps, appointmentIndex))

(* Mutant: the appointment is taken out and pushed back with the new slot. *)
UpdatedAtEnd(apps, a, newTimeSlot) ==
    Append(RemoveAt(apps, a), [apps[a] EXCEPT !.timeSlot = newTimeSlot])

(* Mutant: the appointment is rebuilt and numbered again. *)
UpdatedWithFreshId(apps, a, newTimeSlot) ==
    [apps EXCEPT ![a] = [patient |-> apps[a].patient,
                         timeSlot |-> newTimeSlot,
                         doctorName |-> apps[a].doctorName,
                         id |-> Len(apps) + 1]]

(* appointment.timeSlot = newTimeSlot: the array after the assignment to   *)
(* the object at index a.                                                  *)
Updated(apps, a, newTimeSlot) == [apps EXCEPT ![a].timeSlot = newTimeSlot]

(* 5. PUT /api/appointments *)
ModifyAppointment(apps, body) ==
    LET a == findAppointment(apps, body.email, body.originalTimeSlot)
        d == FindDoctor(apps[a].doctorName)
        updated == Updated(apps, a, body.newTimeSlot)
    IN  IF \/ ~Truthy(body.email) \/ ~Truthy(body.originalTimeSlot)
           \/ ~Truthy(body.newTimeSlot)
        THEN Outcome(ErrorReply(400, "All fields are required"), apps)
        ELSE IF a = 0
        THEN Outcome(ErrorReply(404, "Original appointment not found"), apps)
        ELSE IF d = 0
        THEN Outcome(Uncaught("TypeError"), apps)
        ELSE IF ~SlotsInclude(doctors[d], body.newTimeSlot)
        THEN Outcome(ErrorReply(400, "Invalid or unavailable new time slot"), apps)
        ELSE IF SlotTaken(apps, a, body.newTimeSlot)
        THEN Outcome(ErrorReply(400, "New time slot is already booked"), apps)
        ELSE Outcome(ObjectReply(200, [apps[a] EXCEPT !.timeSlot = body.newTimeSlot]),
                     updated)

-----------------------------------------------------------------------------
(* The requests the model sends. *)

John == Str("john@example.com")
Jane == Str("jane@example.com")
Smith == Str("Dr. Smith")
Johnson == Str("Dr. Johnson")
Slot9 == Str("9:00 AM - 10:00 AM")
Slot10 == Str("10:00 AM - 11:00 AM")
Slot11 == Str("11:00 AM - 12:00 PM")
Slot14 == Str("2:00 PM - 3:00 PM")

FirstNames == {Undefined, Str("John")}
LastNames == {Undefined, Str("Doe")}
Emails == {Undefined, John, Jane, Str("invalid-email"), Num("5")}
TimeSlots == {Undefined, Slot9, Slot10, Slot11}
DoctorNames == {Undefined, Smith, Johnson, Str("Dr. NonExistent")}

BookBodies ==
    [firstName : FirstNames, lastName : LastNames, email : Emails,
     timeSlot : TimeSlots, doctorName : DoctorNames]
CancelBodies == [email : {Undefined, John, Jane, Num("5")}, timeSlot : TimeSlots]
ModifyBodies ==
    [email : {Undefined, John, Jane, Num("5")}, originalTimeSlot : TimeSlots,
     newTimeSlot : TimeSlots \cup {Slot14}]
(* Route parameters are always non-empty strings. *)
PatientParams ==
    [email : {John, Jane, Str("invalid-email"), Str("john@example"),
              Str("jo hn@example.com"), Str("@example.com"),
              Str("john\f@example.com")}]
DoctorParams == [doctorName : DoctorNames \ {Undefined}]

-----------------------------------------------------------------------------
(* The server.  Node runs one handler at a time: a request is taken when   *)
(* the previous request-response cycle has ended, and its handler runs to  *)
(* completion in that step.                                                *)

NoRequest == [op |-> "none", body |-> <<>>]
NoResponse == [status |-> 0, body |-> [kind |-> "none", text |-> "", data |-> <<>>]]

Init ==
    /\ appointments = <<>>
    /\ req = NoRequest
    /\ res = NoResponse
    /\ n = 0
    /\ bookedAt = <<>>
    /\ inflight = <<>>
    /\ answered = <<>>

(* A handler run: the response is sent and the list replaced by the        *)
(* handler's result.                                                       *)
Handled(op, body, o) ==
    /\ req = NoRequest
    /\ n < MaxRequests
    /\ appointments' = o.appointments
    /\ res' = o.res
    /\ req' = [op |-> op, body |-> body]
    /\ n' = n + 1
    /\ UNCHANGED <<inflight, answered>>

Book(body) ==
    /\ Handled("book", body, BookAppointment(appointments, body))
    /\ bookedAt' = IF Len(appointments') > Len(appointments)
                   THEN Append(bookedAt, n + 1) ELSE bookedAt

ListByPatient(params) ==
    /\ Handled("listByPatient", params, PatientAppointments(appointments, params))
    /\ UNCHANGED bookedAt

ListByDoctor(params) ==
    /\ Handled("listByDoctor", params, DoctorAppointments(appointments, params))
    /\ UNCHANGED bookedAt

Cancel(body) ==
    /\ Handled("cancel", body, CancelAppointment(appointments, body))
    /\ bookedAt' = IF Len(appointments') < Len(appointments)
                   THEN RemoveAt(bookedAt, CancelIndex(appointments, body.email, body.timeSlot))
                   ELSE bookedAt

Modify(body) ==
    /\ Handled("modify", body, ModifyAppointment(appointments, body))
    /\ UNCHANGED bookedAt

(* The request-response cycle ends: req and res are dropped. *)
EndCycle ==
    /\ req # NoRequest
    /\ req' = NoRequest
    /\ res' = NoResponse
    /\ UNCHANGED <<appointments, n, bookedAt, inflight, answered>>

Next ==
    \/ \E body \in BookBodies : Book(body)
    \/ \E params \in PatientParams : ListByPatient(params)
    \/ \E params \in DoctorParams : ListByDoctor(params)
    \/ \E body \in CancelBodies : Cancel(body)
    \/ \E body \in ModifyBodies : Modify(body)
    \/ EndCycle

Spec == Init /\ [][Next]_vars

-----------------------------------------------------------------------------
(* Concurrent bookings.  Clients send book requests that wait in the event *)
(* loop; the server takes them in any order, each handler running to       *)
(* completion before the next starts.                                      *)

Clients == 1..MaxClients

RaceBodies ==
    [firstName : {Str("John")}, lastName : {Str("Doe")}, email : {John, Jane},
     timeSlot : {Slot9, Slot11}, doctorName : {Smith, Johnson}]

Arrive(c, body) ==
    /\ c \notin DOMAIN inflight
    /\ inflight' = (c :> body) @@ inflight
    /\ UNCHANGED <<appointments, req, res, n, bookedAt, answered>>

Serve(c) ==
    /\ c \in DOMAIN inflight
    /\ c \notin DOMAIN answered
    /\ LET o == BookAppointment(appointments, inflight[c])
       IN  /\ appointments' = o.appointments
           /\ answered' = (c :> o.res) @@ answered
    /\ UNCHANGED <<req, res, n, bookedAt, inflight>>

NextRace ==
    \/ \E c \in Clients : \E body \in RaceBodies : Arrive(c, body)
    \/ \E c \in Clients : Serve(c)

SpecRace == Init /\ [][NextRace]_vars

-----------------------------------------------------------------------------
(* Vocabulary of the properties. *)

(* All five fields of a book body are present. *)
AllPresent(b) ==
    /\ Truthy(b.firstName) /\ Truthy(b.lastName) /\ Truthy(b.email)
    /\ Truthy(b.timeSlot) /\ Truthy(b.doctorName)

(* The e-mail is a string of the form local@domain.tld. *)
WellFormed(email) == email.type = "string" /\ EmailPattern(Chars(email.val))

InCatalog(doctorName) == \E i \in DOMAIN doctors : Str(doctors[i].name) = doctorName

(* timeSlot is a slot label of the catalog doctor doctorName. *)
SlotOf(doctorName, timeSlot) ==
    \E i \in DOMAIN doctors :
        /\ Str(doctors[i].name) = doctorName
        /\ \E k \in DOMAIN doctors[i].slots : Str(doctors[i].slots[k]) = timeSlot

(* Some appointment of apps holds (doctorName, timeSlot). *)
Held(apps, doctorName, timeSlot) ==
    \E i \in DOMAIN apps : apps[i].doctorName = doctorName /\ apps[i].timeSlot = timeSlot

(* The k-th smallest element of a set of indexes. *)
Kth(I, k) == CHOOSE i \in I : Cardinality({j \in I : j <= i}) = k

(* out is the subsequence of apps at the indexes I, in list order. *)
IsSelection(out, apps, I) ==
    /\ Len(out) = Cardinality(I)
    /\ \A k \in 1..Len(out) : out[k] = apps[Kth(I, k)]

-----------------------------------------------------------------------------
(* C1: in every reachable state no two distinct appointments of the list   *)
(* have the same (doctorName, timeSlot).                                   *)
NoDoubleBooking ==
    \A i \in DOMAIN appointments : \A j \in DOMAIN appointments :
        i # j => ~( /\ appointments[i].doctorName = appointments[j].doctorName
                    /\ appointments[i].timeSlot = appointments[j].timeSlot )

(* Two appointments of one doctor stand side by side after a successful    *)
(* modify.                                                                 *)
NoDoubleBookingWitness ==
    /\ req.op = "modify" /\ res.status = 200
    /\ \E i \in DOMAIN appointments : \E j \in DOMAIN appointments :
          i # j /\ appointments[i].doctorName = appointments[j].doctorName

(* C2: ids are never reused, so no two appointments of the list share an   *)
(* id, also after a cancel.                                                *)
UniqueIds ==
    \A i \in DOMAIN appointments : \A j \in DOMAIN appointments :
        i # j => appointments[i].id # appointments[j].id

(* C3: of the in-flight book requests for one (doctorName, timeSlot), at   *)
(* most one is answered 201 and at most one appointment for the pair is in *)
(* the list.                                                               *)
RaceAtMostOne ==
    /\ \A c1 \in DOMAIN answered : \A c2 \in DOMAIN answered :
          ( /\ c1 # c2
            /\ inflight[c1].doctorName = inflight[c2].doctorName
            /\ inflight[c1].timeSlot = inflight[c2].timeSlot
            /\ answered[c1].status = 201 ) => answered[c2].status # 201
    /\ \A c \in DOMAIN inflight :
          Cardinality({i \in DOMAIN appointments :
                          /\ appointments[i].doctorName = inflight[c].doctorName
                          /\ appointments[i].timeSlot = inflight[c].timeSlot}) <= 1

(* Two clients asked for the same pair; one got 201, the other 400. *)
RaceWitness ==
    \E c1 \in DOMAIN answered : \E c2 \in DOMAIN answered :
        /\ c1 # c2
        /\ inflight[c1].doctorName = inflight[c2].doctorName
        /\ inflight[c1].timeSlot = inflight[c2].timeSlot
        /\ inflight[c1].email # inflight[c2].email
        /\ answered[c1].status = 201
        /\ answered[c2] = ErrorReply(400, "Time slot already booked")

(* C4: a book request with all fields present, a well-formed e-mail, a     *)
(* catalog doctor, one of that doctor's slots and a free (doctor, slot)    *)
(* is answered 201 with the new appointment, which is appended with the    *)
(* request's patient, doctor and slot and id = previous length + 1; the    *)
(* earlier appointments are unchanged.                                     *)
BookSucceeds ==
    [][ ( /\ req'.op = "book"
          /\ AllPresent(req'.body)
          /\ WellFormed(req'.body.email)
          /\ InCatalog(req'.body.doctorName)
          /\ SlotOf(req'.body.doctorName, req'.body.timeSlot)
          /\ ~Held(appointments, req'.body.doctorName, req'.body.timeSlot) )
        => ( /\ res'.status = 201
             /\ Len(appointments') = Len(appointments) + 1
             /\ \A k \in DOMAIN appointments : appointments'[k] = appointments[k]
             /\ LET a == appointments'[Len(appointments')]
                IN  /\ a.patient.firstName = req'.body.firstName
                    /\ a.patient.lastName = req'.body.lastName
                    /\ a.patient.email = req'.body.email
                    /\ a.doctorName = req'.body.doctorName
                    /\ a.timeSlot = req'.body.timeSlot
                    /\ a.id = Len(appointments) + 1
                    /\ res'.body.kind = "object"
                    /\ res'.body.data = <<a>> ) ]_vars

(* A second appointment was just booked and returned. *)
BookSucceedsWitness ==
    /\ req.op = "book" /\ res.status = 201
    /\ Len(appointments) >= 2
    /\ res.body.data = <<appointments[Len(appointments)]>>

(* C5 as stated: every book request for a (doctorName, timeSlot) that an   *)
(* appointment of the list holds is answered 400 "Time slot already        *)
(* booked" and the list is unchanged.  The presence and e-mail checks come *)
(* first (index.js:33-39), so a request for a held pair with a missing     *)
(* field or a malformed e-mail gets their answer instead.                  *)
BookedSlotRejectedAlways ==
    [][ ( /\ req'.op = "book"
          /\ Held(appointments, req'.body.doctorName, req'.body.timeSlot) )
        => ( /\ res' = ErrorReply(400, "Time slot already booked")
             /\ appointments' = appointments ) ]_vars

(* C5: a book request for a (doctorName, timeSlot) that an appointment of  *)
(* the list holds leaves the list unchanged, and when its five fields are  *)
(* present and its e-mail is well formed it is answered 400 "Time slot     *)
(* already booked".                                                        *)
BookedSlotRejected ==
    [][ ( /\ req'.op = "book"
          /\ Held(appointments, req'.body.doctorName, req'.body.timeSlot) )
        => ( /\ appointments' = appointments
             /\ ( AllPresent(req'.body) /\ WellFormed(req'.body.email) )
                 => res' = ErrorReply(400, "Time slot already booked") ) ]_vars

(* A patient was refused a slot that another patient holds. *)
BookedSlotRejectedWitness ==
    /\ req.op = "book"
    /\ res = ErrorReply(400, "Time slot already booked")
    /\ \E i \in DOMAIN appointments :
          /\ appointments[i].doctorName = req.body.doctorName
          /\ appointments[i].timeSlot = req.body.timeSlot
          /\ appointments[i].patient.email # req.body.email

(* C6: book answers by its first failing check, in the order missing       *)
(* field, malformed e-mail, unknown doctor, slot not of the doctor, slot   *)
(* held; a failing request leaves the list unchanged.                      *)
BookCheckOrder ==
    [][ req'.op = "book" =>
        LET b == req'.body
            expected ==
                IF ~AllPresent(b) THEN ErrorReply(400, "All fields are required")
                ELSE IF ~WellFormed(b.email) THEN ErrorReply(400, "Invalid email format")
                ELSE IF ~InCatalog(b.doctorName) THEN ErrorReply(404, "Doctor not found")
                ELSE IF ~SlotOf(b.doctorName, b.timeSlot)
                THEN ErrorReply(400, "Invalid or unavailable time slot")
                ELSE IF Held(appointments, b.doctorName, b.timeSlot)
                THEN ErrorReply(400, "Time slot already booked")
                ELSE res'
        IN  /\ res' = expected
            /\ res'.status # 201 => appointments' = appointments ]_vars

(* C7: listByPatient with a well-formed e-mail answers 200 with exactly    *)
(* the appointments of that e-mail, in list order, which is the order of   *)
(* booking; 404 "No appointments found" exactly when there is none; the    *)
(* list is unchanged.                                                      *)
ListByPatientCorrect ==
    [][ (req'.op = "listByPatient" /\ WellFormed(req'.body.email)) =>
        LET I == {i \in DOMAIN appointments :
                     appointments[i].patient.email = req'.body.email}
        IN  /\ appointments' = appointments
            /\ I = {} <=> res' = ErrorReply(404, "No appointments found")
            /\ I # {} => /\ res'.status = 200
                         /\ res'.body.kind = "array"
                         /\ IsSelection(res'.body.data, appointments, I)
            /\ Len(bookedAt) = Len(appointments)
            /\ \A i \in DOMAIN bookedAt : \A j \in DOMAIN bookedAt :
                  i < j => bookedAt[i] < bookedAt[j] ]_vars

(* Two of three appointments were returned. *)
ListByPatientWitness ==
    /\ req.op = "listByPatient" /\ res.status = 200
    /\ Len(res.body.data) = 2
    /\ Len(appointments) = 3

(* C8: listByDoctor answers 404 "Doctor not found" exactly when the name   *)
(* is not in the catalog; otherwise 200 with exactly the appointments of   *)
(* that doctor in list order, an empty array when there is none; the list  *)
(* is unchanged.                                                           *)
ListByDoctorCorrect ==
    [][ req'.op = "listByDoctor" =>
        LET I == {i \in DOMAIN appointments :
                     appointments[i].doctorName = req'.body.doctorName}
        IN  /\ appointments' = appointments
            /\ ~InCatalog(req'.body.doctorName)
                  <=> res' = ErrorReply(404, "Doctor not found")
            /\ InCatalog(req'.body.doctorName) =>
                  /\ res'.status = 200
                  /\ res'.body.kind = "array"
                  /\ IsSelection(res'.body.data, appointments, I) ]_vars

(* A catalog doctor without appointments got an empty array while the list *)
(* was not empty.                                                          *)
ListByDoctorWitness ==
    /\ req.op = "listByDoctor" /\ res.status = 200
    /\ res.body.data = <<>>
    /\ appointments # <<>>

(* C9: cancel with both fields present removes exactly the matching        *)
(* appointment and answers 200, the others keeping their order; when none  *)
(* matches it answers 404 "Appointment not found" and the list is          *)
(* unchanged.                                                              *)
CancelCorrect ==
    [][ (req'.op = "cancel" /\ Truthy(req'.body.email) /\ Truthy(req'.body.timeSlot)) =>
        LET M == {i \in DOMAIN appointments :
                     /\ appointments[i].patient.email = req'.body.email
                     /\ appointments[i].timeSlot = req'.body.timeSlot}
        IN  IF M # {}
            THEN /\ res'.status = 200
                 /\ Len(appointments') = Len(appointments) - 1
                 /\ \E i \in M :
                       /\ \A k \in 1..(i - 1) : appointments'[k] = appointments[k]
                       /\ \A k \in i..Len(appointments') :
                             appointments'[k] = appointments[k + 1]
            ELSE /\ res' = ErrorReply(404, "Appointment not found")
                 /\ appointments' = appointments ]_vars

(* The first of three appointments was cancelled. *)
CancelWitness ==
    /\ req.op = "cancel" /\ res.status = 200
    /\ Len(appointments) = 2
    /\ bookedAt = <<2, 3>>

(* C10: right after a cancel answered 200, the same cancel again is        *)
(* answered 404 and leaves the list as the first call left it.             *)
CancelTwice ==
    (req.op = "cancel" /\ res.status = 200) =>
        LET second == CancelAppointment(appointments, req.body)
        IN  /\ second.res = ErrorReply(404, "Appointment not found")
            /\ second.appointments = appointments

(* A cancel was answered 200 while the patient keeps another appointment,  *)
(* and the same cancel again finds nothing.                                *)
CancelTwiceWitness ==
    /\ req.op = "cancel" /\ res.status = 200
    /\ \E i \in DOMAIN appointments : appointments[i].patient.email = req.body.email
    /\ CancelAppointment(appointments, req.body).res.status = 404

-----------------------------------------------------------------------------
(* Vocabulary of the modify properties. *)

(* The indexes of the appointments of apps with that e-mail and slot. *)
Matching(apps, email, timeSlot) ==
    {i \in DOMAIN apps : apps[i].patient.email = email /\ apps[i].timeSlot = timeSlot}

(* All three fields of a modify body are present. *)
ModifyPresent(b) ==
    Truthy(b.email) /\ Truthy(b.originalTimeSlot) /\ Truthy(b.newTimeSlot)

(* C11: modify of an existing appointment (email, originalTimeSlot) to a   *)
(* slot of its doctor that no appointment of that doctor holds answers 200 *)
(* with the updated appointment; the appointment keeps its position and    *)
(* has the new slot, the length and all other appointments are unchanged.  *)
ModifySucceeds ==
    [][ req'.op = "modify" =>
        \A i \in Matching(appointments, req'.body.email, req'.body.originalTimeSlot) :
            ( /\ SlotOf(appointments[i].doctorName, req'.body.newTimeSlot)
              /\ ~Held(appointments, appointments[i].doctorName, req'.body.newTimeSlot) )
            => ( /\ res'.status = 200
                 /\ res'.body.kind = "object"
                 /\ Len(appointments') = Len(appointments)
                 /\ appointments'[i].timeSlot = req'.body.newTimeSlot
                 /\ appointments'[i].id = appointments[i].id
                 /\ appointments'[i].patient = appointments[i].patient
                 /\ appointments'[i].doctorName = appointments[i].doctorName
                 /\ res'.body.data = <<appointments'[i]>>
                 /\ \A k \in DOMAIN appointments :
                       k # i => appointments'[k] = appointments[k] ) ]_vars

(* The first of several appointments was moved to another slot. *)
ModifySucceedsWitness ==
    /\ req.op = "modify" /\ res.status = 200
    /\ Len(appointments) >= 2
    /\ res.body.data = <<appointments[1]>>
    /\ appointments[1].timeSlot = req.body.newTimeSlot

(* C12: modify to a slot that another patient's appointment with the same  *)
(* doctor holds is answered 400 "New time slot is already booked" and no   *)
(* appointment changes.                                                    *)
ModifyToHeldSlotRejected ==
    [][ ( /\ req'.op = "modify"
          /\ \E i \in Matching(appointments, req'.body.email, req'.body.originalTimeSlot) :
                \E j \in DOMAIN appointments :
                    /\ appointments[j].doctorName = appointments[i].doctorName
                    /\ appointments[j].timeSlot = req'.body.newTimeSlot
                    /\ appointments[j].patient.email # req'.body.email )
        => ( /\ res' = ErrorReply(400, "New time slot is already booked")
             /\ appointments' = appointments ) ]_vars

(* A modify was refused because another patient holds the new slot. *)
ModifyToHeldSlotWitness ==
    /\ req.op = "modify"
    /\ res = ErrorReply(400, "New time slot is already booked")
    /\ req.body.newTimeSlot # req.body.originalTimeSlot
    /\ \E j \in DOMAIN appointments :
          /\ appointments[j].timeSlot = req.body.newTimeSlot
          /\ appointments[j].patient.email # req.body.email

(* C13: while an appointment is in the list (the same booking, by the      *)
(* request that booked it) its id, doctorName and patient never change;    *)
(* its timeSlot changes only in a modify answered 200.                     *)
IdentityKept ==
    [][ /\ Len(bookedAt) = Len(appointments)
        /\ Len(bookedAt') = Len(appointments')
        /\ \A i \in DOMAIN appointments : \A j \in DOMAIN appointments' :
              bookedAt[i] = bookedAt'[j] =>
                  /\ appointments'[j].id = appointments[i].id
                  /\ appointments'[j].doctorName = appointments[i].doctorName
                  /\ appointments'[j].patient = appointments[i].patient
                  /\ appointments'[j].timeSlot # appointments[i].timeSlot
                        => (req'.op = "modify" /\ res'.status = 200) ]_vars

(* An appointment booked by the first request stands on a slot that only a *)
(* modify can give it, after a later cancel of another appointment.        *)
IdentityKeptWitness ==
    /\ req.op = "cancel" /\ res.status = 200
    /\ \E i \in DOMAIN appointments :
          /\ appointments[i].timeSlot = Slot14
          /\ Len(bookedAt) = Len(appointments)
          /\ bookedAt[i] = 1

(* C14: in every reachable state each appointment's doctorName is a        *)
(* catalog doctor and its timeSlot one of that doctor's slot labels.       *)
SlotsLegal ==
    \A i \in DOMAIN appointments :
        /\ InCatalog(appointments[i].doctorName)
        /\ SlotOf(appointments[i].doctorName, appointments[i].timeSlot)

(* Appointments of both doctors, one of them moved by a modify. *)
SlotsLegalWitness ==
    /\ \E i \in DOMAIN appointments : appointments[i].doctorName = Johnson
    /\ \E i \in DOMAIN appointments :
          appointments[i].doctorName = Smith /\ appointments[i].timeSlot = Slot14

(* C15: every request ends in 200, 201, 400 or 404, an error answer        *)
(* carrying a message; no handler ends in an uncaught exception.           *)
NoUncaught ==
    req.op # "none" =>
        /\ res.status \in {200, 201, 400, 404}
        /\ res.status \in {400, 404} => (res.body.kind = "error" /\ res.body.text # "")

(* C16: in every reachable state at most one appointment matches a given   *)
(* (patient.email, timeSlot), so the appointment cancel removes and modify *)
(* updates is determined by the request.                                   *)
OneMatchPerPatientSlot ==
    \A i \in DOMAIN appointments : \A j \in DOMAIN appointments :
        ( /\ appointments[i].patient.email = appointments[j].patient.email
          /\ appointments[i].timeSlot = appointments[j].timeSlot ) => i = j

(* One patient holds appointments with both doctors. *)
OneMatchWitness ==
    \E i \in DOMAIN appointments : \E j \in DOMAIN appointments :
        /\ appointments[i].patient.email = appointments[j].patient.email
        /\ appointments[i].doctorName = Smith
        /\ appointments[j].doctorName = Johnson

(* C17: modify with newTimeSlot equal to originalTimeSlot, on an existing  *)
(* appointment (email, originalTimeSlot), is answered 400 "New time slot   *)
(* is already booked" and the list is unchanged.                           *)
ModifyToSameSlotRejected ==
    [][ ( /\ req'.op = "modify"
          /\ req'.body.newTimeSlot = req'.body.originalTimeSlot
          /\ Matching(appointments, req'.body.email, req'.body.originalTimeSlot) # {} )
        => ( /\ res' = ErrorReply(400, "New time slot is already booked")
             /\ appointments' = appointments ) ]_vars

(* A modify to the appointment's own slot was refused while no other       *)
(* appointment holds that slot.                                            *)
ModifyToSameSlotWitness ==
    /\ req.op = "modify"
    /\ req.body.newTimeSlot = req.body.originalTimeSlot
    /\ res = ErrorReply(400, "New time slot is already booked")
    /\ Cardinality({i \in DOMAIN appointments :
                       appointments[i].timeSlot = req.body.newTimeSlot}) = 1

(* C18: modify answers by its first failing check, in the order missing    *)
(* field, no appointment (email, originalTimeSlot), newTimeSlot not of the *)
(* appointment's doctor, newTimeSlot held for that doctor; a failing       *)
(* modify changes nothing, and an appointment that modify changes had      *)
(* originalTimeSlot as its slot.                                           *)
ModifyCheckOrder ==
    [][ req'.op = "modify" =>
        LET b == req'.body
            M == Matching(appointments, b.email, b.originalTimeSlot)
            expected ==
                IF ~ModifyPresent(b) THEN ErrorReply(400, "All fields are required")
                ELSE IF M = {} THEN ErrorReply(404, "Original appointment not found")
                ELSE IF \E i \in M : ~SlotOf(appointments[i].doctorName, b.newTimeSlot)
                THEN ErrorReply(400, "Invalid or unavailable new time slot")
                ELSE IF \E i \in M : Held(appointments, appointments[i].doctorName, b.newTimeSlot)
                THEN ErrorReply(400, "New time slot is already booked")
                ELSE res'
        IN  /\ res' = expected
            /\ res'.status # 200 => appointments' = appointments
            /\ Len(appointments') = Len(appointments)
            /\ \A i \in DOMAIN appointments :
                  appointments'[i] # appointments[i] =>
                      /\ appointments[i].timeSlot = b.originalTimeSlot
                      /\ appointments[i].patient.email = b.email ]_vars

(* The original appointment was not found although the new slot is not one *)
(* of the slots of the doctor the patient has an appointment with.         *)
ModifyCheckOrderWitness ==
    /\ req.op = "modify"
    /\ res = ErrorReply(404, "Original appointment not found")
    /\ \E i \in DOMAIN appointments :
          /\ appointments[i].patient.email = req.body.email
          /\ ~SlotOf(appointments[i].doctorName, req.body.newTimeSlot)

(* A book body of patient John Doe. *)
BodyFor(email, timeSlot, doctorName) ==
    [firstName |-> Str("John"), lastName |-> Str("Doe"), email |-> email,
     timeSlot |-> timeSlot, doctorName |-> doctorName]

(* The catalog doctors that offer timeSlot. *)
DoctorsOffering(timeSlot) ==
    {Str(doctors[i].name) : i \in {k \in DOMAIN doctors : SlotsInclude(doctors[k], timeSlot)}}

(* C19: a book request with all fields, a well-formed e-mail, a catalog    *)
(* doctor and one of the doctor's slots is answered 201 exactly when no    *)
(* appointment holds the (doctorName, timeSlot); so the slot released by a *)
(* cancel answered 200, and the slot left by a modify answered 200, can be *)
(* booked by the next request.                                             *)
NoPhantomReservation ==
    [][ /\ ( /\ req'.op = "book"
             /\ AllPresent(req'.body)
             /\ WellFormed(req'.body.email)
             /\ InCatalog(req'.body.doctorName)
             /\ SlotOf(req'.body.doctorName, req'.body.timeSlot) )
           => ( res'.status = 201
                  <=> ~Held(appointments, req'.body.doctorName, req'.body.timeSlot) )
        /\ (req'.op = "cancel" /\ res'.status = 200)
           => \A e \in {John, Jane} : \A d \in DoctorsOffering(req'.body.timeSlot) :
                 BookAppointment(appointments', BodyFor(e, req'.body.timeSlot, d)).res.status = 201
        /\ (req'.op = "modify" /\ res'.status = 200)
           => \A e \in {John, Jane} :
                 BookAppointment(appointments',
                                 BodyFor(e, req'.body.originalTimeSlot,
                                         res'.body.data[1].doctorName)).res.status = 201
      ]_vars

(* A cancel answered 200 has just released a slot while another            *)
(* appointment of the same doctor remains in the list.                     *)
NoPhantomWitness ==
    /\ req.op = "cancel" /\ res.status = 200
    /\ \E d \in DoctorsOffering(req.body.timeSlot) :
          /\ ~Held(appointments, d, req.body.timeSlot)
          /\ \E i \in DOMAIN appointments : appointments[i].doctorName = d

(* C20: a book answered 201 followed at once by cancel(email, timeSlot) of *)
(* the same request is answered 200 and gives back the list as it was      *)
(* before the book.                                                        *)
BookCancelRoundTrip ==
    [][ (req'.op = "book" /\ res'.status = 201) =>
        LET undo == CancelAppointment(appointments',
                                      [email |-> req'.body.email,
                                       timeSlot |-> req'.body.timeSlot])
        IN  /\ undo.res.status = 200
            /\ undo.appointments = appointments ]_vars

(* The patient who just booked already had an earlier appointment. *)
RoundTripWitness ==
    /\ req.op = "book" /\ res.status = 201
    /\ \E i \in 1..(Len(appointments) - 1) :
          appointments[i].patient.email = req.body.email

=============================================================================
